---- MODULE Spec2Model ----
(***************************************************************************)
(* The @cached decorator of packages/@ember/-internals/metal/lib/cached.ts *)
(* as a state machine: applying the decorator to a declaration, reading    *)
(* the installed property on an instance, and writing a tracked field.     *)
(***************************************************************************)
EXTENDS Integers, Sequences, FiniteSets, TLC

\* Depth of nested getter calls at which the host's call stack is exhausted.
\* The host's limit is some thousand frames and differs from build to build;
\* the counters of a read that exhausts the stack grow with it, its outcome
\* (RangeError, one cache, nothing cached) does not.
MaxDepth == 3

\* How often, while the class is defined, the decorator is applied to a
\* getter it has already replaced (@cached @cached get k()).
MaxReapply == 1

\* How many reads of one behaviour are made by a caller that has used the
\* stack of the host up to its last level.
MaxShort == 1

\* The class of the documentation example, with a second cached getter.
Instances == {"a", "b"}
Fields == {"first", "last"}
DeclOrder == <<"fullName", "greeting">>
Decls == {DeclOrder[n] : n \in 1..Len(DeclOrder)}
Cells == Instances \X Fields

\* Every application that returns installs a closure of its own: closure
\* <<d, k>> is the k-th caching getter installed on property d, with its own
\* `caches` and its own `getter`.
Layers == 1..(1 + MaxReapply)
Closures == Decls \X Layers

FieldValues(fld) ==
    IF fld = "first" THEN {"Jen", ""} ELSE {"Weber", "Smith"}

(***************************************************************************)
(* JavaScript values handed to the decorator.                              *)
(***************************************************************************)
Undefined == [t |-> "undefined", v |-> ""]
Null == [t |-> "null", v |-> ""]
Proto == [t |-> "object", v |-> "prototype"]
\* A class constructor; v is its source text.
Klass == [t |-> "function", v |-> "class Person {}"]
DescRef == [t |-> "object", v |-> "descriptor"]
Str(s) == [t |-> "string", v |-> s]
Num == [t |-> "number", v |-> "1"]
\* Symbol('s'), the key of `@cached get [sym]()`
Sym == [t |-> "symbol", v |-> "s"]
\* Object.create(null): an object without Object.prototype
Bare == [t |-> "object", v |-> "null-prototype"]

TypeOf(x) == IF x.t = "null" THEN "object" ELSE x.t

\* const [target, key, descriptor] = args
Arg(args, n) == IF n <= Len(args) THEN args[n] ELSE Undefined

\* What `get` a descriptor can hold before the decorator runs: no 'get' key
\* (a data field), a 'get' key holding undefined (a setter-only accessor), or
\* the original getter function.
GetKinds == {"absent", "undefined", "f"}

\* 'get' in descriptor
HasGet(descriptor, get) == descriptor = DescRef /\ get # "absent"

\* typeof descriptor.get
TypeOfGet(descriptor, get) ==
    IF descriptor = DescRef /\ get \in {"f", "cached"} THEN "function" ELSE "undefined"

(***************************************************************************)
(* Errors.                                                                 *)
(***************************************************************************)
\* An error: its kind, and what its message is built from: the key it
\* names, whether it speaks of one argument or of several, and the list of
\* the arguments as it is printed.
NoError == [name |-> "none", key |-> "", plural |-> FALSE, list |-> ""]
TypeError == [name |-> "TypeError", key |-> "", plural |-> FALSE, list |-> ""]

\* `${d}`: the conversion of a value to a string in a template literal.
\* A symbol and an object without Object.prototype (no toString, no
\* valueOf) cannot be converted: the host raises a TypeError.
Printable(x) == x.t # "symbol" /\ x # Bare

ToStr(x) ==
    IF x.t \in {"undefined", "null"} THEN x.t
    ELSE IF x.t \in {"string", "number", "function"} THEN x.v
    ELSE "[object Object]"

\* args.map((d) => `'${d}'`).join(', ')
RECURSIVE QuotedList(_)
QuotedList(args) ==
    IF args = <<>> THEN ""
    ELSE IF Len(args) = 1 THEN "'" \o ToStr(args[1]) \o "'"
    ELSE "'" \o ToStr(args[1]) \o "', " \o QuotedList(Tail(args))

ThrowCachedExtraneousParens ==
    [name |-> "ExtraneousParens", key |-> "", plural |-> FALSE, list |-> ""]

\* Mutant: the message is built from the descriptor instead of the key.
ThrowCachedGetterOnlyErrorOfDescriptor(key) ==
    [name |-> "GetterOnly", key |-> "[object Object]", plural |-> FALSE,
     list |-> ""]

\* `... '${key}' ...`
ThrowCachedGetterOnlyError(key) ==
    IF ~Printable(key) THEN TypeError
    ELSE [name |-> "GetterOnly", key |-> ToStr(key), plural |-> FALSE,
          list |-> ""]

\* Mutant: the arguments are counted, not printed.
ThrowCachedInvalidArgsErrorCounted(args) ==
    [name |-> "InvalidArgs", key |-> "", plural |-> Len(args) > 1,
     list |-> ""]

\* The message is built before the error is made: an argument that cannot
\* be converted to a string raises the host's TypeError instead.
ThrowCachedInvalidArgsError(args) ==
    IF \E n \in 1..Len(args) : ~Printable(args[n]) THEN TypeError
    ELSE [name |-> "InvalidArgs", key |-> "", plural |-> Len(args) > 1,
          list |-> QuotedList(args)]

(***************************************************************************)
(* The decorator, cached(...args).                                         *)
(***************************************************************************)
\* Mutant: the target is compared with null instead of undefined.
IsExtraneousParensNull(debug, target) == debug /\ target = Null

\* Mutant: every first argument that is no object counts as parentheses.
IsExtraneousParensLoose(debug, target) == debug /\ TypeOf(target) # "object"

\* if (DEBUG && target === undefined)
IsExtraneousParens(debug, target) == debug /\ target = Undefined

\* Mutant: the four tests are joined by && instead of ||.
IsInvalidArgsAll(debug, args) ==
    debug /\ (/\ TypeOf(Arg(args, 1)) # "object"
              /\ TypeOf(Arg(args, 2)) # "string"
              /\ TypeOf(Arg(args, 3)) # "object"
              /\ Len(args) # 3)

\* if (DEBUG && (typeof target !== 'object' || typeof key !== 'string' ||
\*               typeof descriptor !== 'object' || args.length !== 3))
IsInvalidArgs(debug, args) ==
    debug /\ (\/ TypeOf(Arg(args, 1)) # "object"
              \/ TypeOf(Arg(args, 2)) # "string"
              \/ TypeOf(Arg(args, 3)) # "object"
              \/ Len(args) # 3)

\* Mutant: only the presence of 'get' is tested, not its type.
IsNotGetterInOnly(debug, descriptor, get) == debug /\ ~HasGet(descriptor, get)

\* if (DEBUG && (!('get' in descriptor) || typeof descriptor.get !== 'function'))
IsNotGetter(debug, descriptor, get) ==
    debug /\ (~HasGet(descriptor, get) \/ TypeOfGet(descriptor, get) # "function")

Thrown(e) == [err |-> e, install |-> FALSE, getter |-> "none"]

\* const getter = descriptor.get: the property read of an object that is not
\* the declaration's descriptor finds nothing.
ReadGet(descriptor, get) ==
    IF descriptor = DescRef /\ get # "absent" THEN get ELSE "undefined"

\* The outcome of cached(...args) when the declaration's descriptor holds
\* `get`: the error thrown, whether descriptor.get of the declaration was
\* replaced, and the getter the closure captured.
Cached(debug, args, get) ==
    LET target == Arg(args, 1)
        key == Arg(args, 2)
        descriptor == Arg(args, 3)
    IN  IF IsExtraneousParens(debug, target)
          THEN Thrown(ThrowCachedExtraneousParens)
        ELSE IF IsInvalidArgs(debug, args)
          THEN Thrown(ThrowCachedInvalidArgsError(args))
        \* 'get' in null is a TypeError of the host
        ELSE IF debug /\ descriptor = Null
          THEN Thrown(TypeError)
        ELSE IF IsNotGetter(debug, descriptor, get)
          THEN Thrown(ThrowCachedGetterOnlyError(key))
        \* descriptor.get of undefined or null is a TypeError of the host
        ELSE IF descriptor.t \in {"undefined", "null"}
          THEN Thrown(TypeError)
        \* descriptor.get = ... on a primitive is a TypeError in module code
        ELSE IF descriptor.t \notin {"object", "function"}
          THEN Thrown(TypeError)
        ELSE [err |-> NoError,
              install |-> descriptor = DescRef,
              getter |-> ReadGet(descriptor, get)]

\* The argument lists the decorator is applied with, for the declaration
\* with property name k.
ArgLists(k) ==
    { <<>>,                                  \* @cached()
      <<Str("dep")>>,                        \* @cached('dep')
      <<Str("dep"), Str("other")>>,          \* @cached('dep', 'other')
      <<Proto, Str(k)>>,                     \* a field, no descriptor passed
      <<Proto, Str(k), Undefined>>,          \* a field, descriptor undefined
      <<Proto, Str(k), DescRef>>,            \* @cached get k() / @cached k = v
      <<Klass, Str(k), DescRef>>,            \* @cached static get k()
      <<Null, Str(k), DescRef>>,
      <<Undefined, Str(k), DescRef>>,
      <<Proto, Num, DescRef>>,
      <<Proto, Sym, DescRef>>,               \* @cached get [sym]()
      <<Sym>>,                               \* @cached(sym)
      <<Undefined>>,                         \* @cached(undefined)
      <<Undefined, Str("dep")>>,             \* @cached(undefined, 'dep')
      <<Undefined, Sym>>,                    \* @cached(undefined, sym)
      <<Bare, Str(k), DescRef, Str("dep")>>,
      <<Proto, Str(k), Null>>,
      <<Proto, Str(k), Str("value")>>,
      <<Proto, Str(k), DescRef, Str("dep")>> }

(***************************************************************************)
(* State.                                                                  *)
(***************************************************************************)
VARIABLES
    DEBUG,      \* the build flag of @glimmer/env
    descr,      \* descr[d]: what descriptor.get of declaration d holds
    getter,     \* getter[d][k]: the `getter` captured by closure <<d, k>>
    caches,     \* caches[w]: the WeakMap of closure w, instance -> its cache
    cells,      \* cells[i][fld]: the tracked fields of instance i
    applied,    \* applied[d]: the application of the decorator to d, observed
    created,    \* created[w][i]: createCache calls closure w made for i, observed
    seen,       \* seen[d][i]: what the reader of (d, i) last obtained, observed
    last,       \* the operation the caller has just made, observed
    story,      \* how far the documentation example has been played, observed
    shorts      \* the reads so far whose stack ended in their first level

vars == <<DEBUG, descr, getter, caches, cells, applied, created, seen, last,
          story, shorts>>

(***************************************************************************)
(* The original getters (the computations f).  fullName is the getter of   *)
(* the documentation example, `${this.firstName} ${this.lastName}`, which  *)
(* reads both fields and never fails; greeting reads this.first and, when  *)
(* it is empty, answers with a read of this.greeting.                      *)
(***************************************************************************)
Return(v) == [ok |-> TRUE, v |-> v]
Raise(e) == [ok |-> FALSE, v |-> e]

\* The tracked fields f reads on instance i in the state c of the fields.
FReads(d, c, i) ==
    IF d = "fullName"
      THEN {<<i, "first">>, <<i, "last">>}
      ELSE {<<i, "first">>}

\* What a read of d on instance i yields in the state c of the fields.
FResult(d, c, i) ==
    IF d = "fullName"
      THEN Return(c[i]["first"] \o " " \o c[i]["last"])
      ELSE IF c[i]["first"] = ""
             THEN Raise("RangeError")
             ELSE Return("Hi " \o c[i]["first"])

(***************************************************************************)
(* The tracking engine: createCache, getValue and the invalidation a write *)
(* of a tracked field causes.                                              *)
(***************************************************************************)
NoCache == [id |-> 0, decl |-> <<>>, this |-> "", valid |-> FALSE, value |-> "",
            deps |-> {}]

\* createCache(fn): fn is the getter captured by closure `decl`, bound to
\* `this`; it is not evaluated.  id tells the caches made for one
\* (decl, this) apart.
CreateCache(decl, this, id) ==
    [id |-> id, decl |-> decl, this |-> this, valid |-> FALSE, value |-> "",
     deps |-> {}]

\* A write of cell c invalidates every cache whose last evaluation read c.
\* The value an invalidated cache held is never returned again, so it is
\* not kept.
DirtyCell(cs, c) ==
    [d \in DOMAIN cs |-> [k \in DOMAIN cs[d] |->
        IF c \in cs[d][k].deps
          THEN [cs[d][k] EXCEPT !.valid = FALSE, !.value = ""]
          ELSE cs[d][k]]]

(***************************************************************************)
(* The installed getter, descriptor.get = function () {...}.               *)
(***************************************************************************)
\* Mutant: one WeakMap at module level serves every closure.
MapOfModule(w) == <<DeclOrder[1], 1>>

\* const caches = new WeakMap(): the map closure w uses
MapOf(w) == w

\* The closure a read of property d enters: the one installed last.
Top(d) == <<d, Len(getter[d])>>

\* Mutant: the map is replaced by one holding the new entry alone.
CachesSetAnew(map, this, cache) ==
    [k \in DOMAIN map |-> IF k = this THEN cache ELSE [id |-> 0, decl |-> <<>>,
        this |-> "", valid |-> FALSE, value |-> "", deps |-> {}]]

\* Mutant: the test asks for the getter, which is never a key of the map.
CachesHasGetter(map, this) == FALSE

\* caches.has(this)
CachesHas(map, this) == map[this] # NoCache

\* caches.get(this)
CachesGet(map, this) == map[this]

\* caches.set(this, cache)
CachesSet(map, this, cache) == [map EXCEPT ![this] = cache]

\* Mutant: the getter is bound to one fixed object instead of the reader.
BindFixed(this) == "a"

\* getter.bind(this): the receiver the computation is bound to
BindThis(this) == this

RECURSIVE InstalledGetter(_, _, _, _)

\* The call stack of the host is exhausted at `depth` nested invocations,
\* in the function h.site: a call at that depth raises a RangeError in
\* that function, whichever it is in this run.  A site is a function and
\* the closure it belongs to: the installed getter of a closure, the
\* getValue it calls, or f (closure 0), the accessors f calls included.
Exhausted(h, depth, site) == depth >= MaxDepth /\ h.site = site

\* The heap after the RangeError of the host was raised in `site`.
CutAt(h, site) == [h EXCEPT !.cut = site]

\* One invocation of the original getter of property d with receiver
\* `this`, at `depth` nested invocations, in the heap h.  reads are the cells
\* the invocation consumed, those of a cache it read included.
RunF(h, d, this, depth) ==
    LET first == h.cells[this]["first"]
        h1 == [h EXCEPT !.invoked[d][this] = @ + 1]
    IN  IF Exhausted(h1, depth, <<"f", 0>>)
          \* the stack ends in f or in the accessor of a field f reads
          THEN [h |-> CutAt(h1, <<"f", 0>>), res |-> Raise("RangeError"),
                reads |-> {<<this, "first">>}]
        ELSE IF d = "fullName"
          THEN [h |-> h1,
                res |-> Return(first \o " " \o h.cells[this]["last"]),
                reads |-> {<<this, "first">>, <<this, "last">>}]
          ELSE IF first = ""
                 THEN IF depth >= MaxDepth
                        \* no level is left for the read f would make
                        THEN [h |-> CutAt(h1, <<"f", 0>>), res |-> Raise("RangeError"),
                              reads |-> {<<this, "first">>}]
                        ELSE LET r == InstalledGetter(h1, Top(d), this, depth + 1)
                             IN  [h |-> r.h, res |-> r.res,
                                  reads |-> {<<this, "first">>} \cup r.deps]
                 ELSE [h |-> h1, res |-> Return("Hi " \o first),
                       reads |-> {<<this, "first">>}]

\* fn(), the function handed to createCache: the getter captured by closure
\* w bound to `this`, which is the original getter of the property for the
\* closure installed first and the caching getter installed before it for
\* every other.
RunFn(h, w, this, depth) ==
    IF w[2] = 1
      THEN RunF(h, w[1], this, depth)
      ELSE LET r == InstalledGetter(h, <<w[1], w[2] - 1>>, this, depth)
           IN  [h |-> r.h, res |-> r.res, reads |-> r.deps]

\* getValue(cache), for the cache held under `key` in the WeakMap d: the
\* cached value while no cell the last evaluation read has been written,
\* else one invocation of fn, whose value and reads are then cached; a
\* failure of fn propagates and is not cached.
GetValue(h, d, key, depth) ==
    LET c == h.caches[d][key]
    IN  IF Exhausted(h, depth, <<"getValue", d[2]>>)
          \* the stack ends in getValue, before fn is called
          THEN [h |-> CutAt(h, <<"getValue", d[2]>>), res |-> Raise("RangeError"),
                deps |-> {}, ninv |-> 0]
        ELSE IF c.valid
          THEN [h |-> h, res |-> Return(c.value), deps |-> c.deps, ninv |-> 0]
          ELSE LET r == RunFn(h, c.decl, c.this, depth)
               IN  IF r.res.ok
                     THEN [h |-> [r.h EXCEPT !.caches[d][key] =
                                     [@ EXCEPT !.valid = TRUE,
                                               !.value = r.res.v,
                                               !.deps = r.reads]],
                           res |-> r.res, deps |-> r.reads, ninv |-> 1]
                     ELSE [h |-> r.h, res |-> r.res, deps |-> {}, ninv |-> 1]

\* Mutant: a new cache is resolved on every read.
ResolveUncached(h, d, this, depth) ==
    GetValue([h EXCEPT !.caches[d][this] =
                 CreateCache(@.decl, @.this, @.id)], d, this, depth)

\* Mutant: the value is kept once computed, whatever was written since.
ResolveStale(h, d, this, depth) ==
    LET c == h.caches[d][this]
    IN  IF c.deps # {}
          THEN [h |-> h, res |-> Return(c.value), deps |-> c.deps, ninv |-> 0]
          ELSE GetValue(h, d, this, depth)

\* Mutant: a failure of the computation is caught and undefined returned.
ResolveSwallow(h, d, this, depth) ==
    LET r == GetValue(h, d, this, depth)
    IN  IF r.res.ok THEN r ELSE [r EXCEPT !.res = Return("undefined")]

\* Mutant: the entry of a computation that failed is deleted again.
ResolveOrForget(h, d, this, depth) ==
    LET r == GetValue([h EXCEPT !.resolves = @ + 1], d, this, depth)
    IN  IF r.res.ok THEN r ELSE [r EXCEPT !.h.caches[d][this] = NoCache]

\* return getValue(caches.get(this)), on the map d
Resolve(h, d, this, depth) ==
    GetValue([h EXCEPT !.resolves = @ + 1], d, this, depth)

\* Mutant: the cache is also kept on the instance, in a tracked field.
RegisterOnInstance(h, d, this) ==
    LET n == h.created[d][BindThis(this)] + 1
    IN  [h EXCEPT !.caches[MapOf(d)] =
                      CachesSet(@, this, CreateCache(d, BindThis(this), n)),
                  !.created[d][BindThis(this)] = n,
                  !.cells[this]["last"] = "cache"]

\* caches.set(this, createCache(getter.bind(this))), for closure d: the
\* heap with the new cache in the map of d.  Nothing else of the heap is
\* written: no field of the instance, no other map.
Register(h, d, this) ==
    LET n == h.created[d][BindThis(this)] + 1
    IN  [h EXCEPT !.caches[MapOf(d)] =
                      CachesSet(@, this, CreateCache(d, BindThis(this), n)),
                  !.created[d][BindThis(this)] = n]

\* descriptor.get = function () { if (!caches.has(this)) caches.set(this,
\* createCache(getter.bind(this))); return getValue(caches.get(this)); }
InstalledGetter(h, d, this, depth) ==
    LET m == MapOf(d)
        h0 == [h EXCEPT !.calls = @ + 1]
    IN  IF Exhausted(h0, depth, <<"getter", d[2]>>)
          \* the stack ends in the installed getter, at caches.has or
          \* caches.get, before getValue is called
          THEN [h |-> CutAt(h0, <<"getter", d[2]>>), res |-> Raise("RangeError"),
                deps |-> {}, ninv |-> 0]
        ELSE IF ~CachesHas(h0.caches[m], this)
          THEN IF getter[d[1]][d[2]] \notin {"f", "cached"}
                 \* getter.bind of a getter that is no function
                 THEN [h |-> h0, res |-> Raise("TypeError"), deps |-> {},
                       ninv |-> 0]
                 ELSE Resolve(Register(h0, d, this), m, this, depth)
          ELSE Resolve(h0, m, this, depth)

(***************************************************************************)
(* Operations.                                                             *)
(***************************************************************************)
NoRes == [ok |-> TRUE, v |-> ""]

\* The stack did not end.
NoSite == <<"", 0>>

Op(op, d) ==
    [op |-> op, d |-> d, i |-> "", res |-> NoRes, ninv |-> 0, total |-> 0,
     pre |-> "", prev |-> "", calls |-> 0, resolves |-> 0, others |-> 0,
     cut |-> NoSite, short |-> FALSE]

\* The functions on the way from one read of d to the read nested in it,
\* in any of which the stack of the host can end: for every closure
\* installed on d, from the last to the first, its installed getter and
\* the getValue that getter calls, and then f with the accessors it calls.
\* Which one it is depends on the frame sizes of the build and on the
\* depth the read starts at.
StackSites(d) ==
    ({"getter", "getValue"} \X (1..Len(getter[d]))) \cup {<<"f", 0>>}

\* The nesting level a read from outside any computation enters at: 1 when
\* its caller leaves it the whole stack, MaxDepth when the caller has used
\* the stack up to its last level, so that the stack ends in the first
\* level of the read.
Starts == {1, MaxDepth}

\* The runs of a read of d on instance i, each the level it enters at and
\* the site its stack ends in.  A read that enters at level 1 reaches the
\* end of the stack only when its getter reads its own property; in every
\* other such read no site is reached, and one stands for all.
AllRuns(d, i) ==
    IF FResult(d, cells, i) = Raise("RangeError")
      THEN Starts \X StackSites(d)
      ELSE {<<1, <<"f", 0>>>>} \cup ({MaxDepth} \X StackSites(d))

\* The runs a behaviour still has: those of a caller deep in the stack
\* while fewer than MaxShort reads have ended in their first level.
Runs(d, i) == {run \in AllRuns(d, i) : run[1] = 1 \/ shorts < MaxShort}

\* The heap a read from outside any computation starts in, with the
\* counters of the read at zero, in a run whose stack ends in `site`; cut
\* is where it has ended, if it has.
Heap(site) ==
    [caches |-> caches, created |-> created,
     invoked |-> [e \in Decls |-> [j \in Instances |-> 0]],
     resolves |-> 0, calls |-> 0, site |-> site, cut |-> NoSite,
     cells |-> cells]

\* The invocations counted in `inv` but those of d with receiver i.
Others(inv, d, i) ==
    LET pairs == {p \in Decls \X Instances : p # <<d, i>> /\ inv[p[1]][p[2]] > 0}
    IN  Cardinality(pairs)

\* The documentation example on instance "a": fullName read with the fields
\* "Jen" and "Weber" (1), read again (2), lastName set to "Smith" (3),
\* fullName read (4); calls counts the invocations of the getter, res is
\* what the last of these reads yielded.  Anything else done to the fields
\* or to fullName of "a" leaves the example (9).
\* short tells whether the stack of the host ended in the first level of
\* one of these reads.
NoStory == [step |-> 9, calls |-> 0, res |-> NoRes, short |-> FALSE]

StoryAfterRead(d, i, res, total, short) ==
    IF d # "fullName" \/ i # "a" THEN story
    ELSE IF story.step = 0 /\ getter[d][1] = "f" /\ seen[d][i].st = "none"
              /\ cells[i]["first"] = "Jen" /\ cells[i]["last"] = "Weber"
      THEN [step |-> 1, calls |-> total, res |-> res, short |-> short]
    ELSE IF story.step \in {1, 3}
      THEN [step |-> story.step + 1, calls |-> story.calls + total, res |-> res,
            short |-> story.short \/ short]
    ELSE NoStory

StoryAfterWrite(i, fld, v) ==
    IF i # "a" THEN story
    ELSE IF story.step = 2 /\ fld = "last" /\ v = "Smith"
      THEN [story EXCEPT !.step = 3]
    ELSE NoStory

Init ==
    /\ DEBUG \in BOOLEAN
    /\ descr \in [Decls -> GetKinds]
    /\ getter = [d \in Decls |-> <<>>]
    /\ caches = [w \in Closures |-> [i \in Instances |-> NoCache]]
    /\ cells = [i \in Instances |-> [fld \in Fields |->
                   IF fld = "first" THEN "Jen" ELSE "Weber"]]
    /\ applied = [d \in Decls |->
                   [done |-> FALSE, args |-> <<>>, err |-> NoError,
                    get0 |-> descr[d], closures0 |-> 0]]
    /\ created = [w \in Closures |-> [i \in Instances |-> 0]]
    /\ seen = [d \in Decls |-> [i \in Instances |->
                   [st |-> "none", val |-> "", deps |-> {}]]]
    /\ last = Op("init", "")
    /\ story = [step |-> 0, calls |-> 0, res |-> NoRes, short |-> FALSE]
    /\ shorts = 0

\* The closures installed so far beyond the first of each property.
Reapplied ==
    Cardinality({w \in Closures : 1 < w[2] /\ w[2] <= Len(getter[w[1]])})

\* The decorator itself accepts every call.  Its callers are the decorators
\* of a class definition: the members are processed in source order, the
\* decorators of one member one after the other, and an error thrown by
\* one aborts the definition; no instance exists before it is complete.
MayApply(d) ==
    /\ last.op \in {"init", "apply"}
    /\ applied[d].done => applied[d].err = NoError /\ Reapplied < MaxReapply
    /\ \A n \in 1..Len(DeclOrder) :
         /\ (\E m \in (n+1)..Len(DeclOrder) : DeclOrder[m] = d) =>
               applied[DeclOrder[n]].done /\ applied[DeclOrder[n]].err = NoError
         /\ (\E m \in 1..(n-1) : DeclOrder[m] = d) => ~applied[DeclOrder[n]].done

\* cached(...args) for declaration d.
Apply(d, args) ==
    /\ MayApply(d)
    /\ LET o == Cached(DEBUG, args, descr[d])
       IN  /\ descr' = IF o.install THEN [descr EXCEPT ![d] = "cached"] ELSE descr
           /\ getter' = IF o.install
                           THEN [getter EXCEPT ![d] = Append(@, o.getter)]
                           ELSE getter
           /\ applied' = [applied EXCEPT ![d] =
                            [done |-> TRUE, args |-> args, err |-> o.err,
                             get0 |-> descr[d], closures0 |-> Len(getter[d])]]
    /\ last' = Op("apply", d)
    /\ UNCHANGED <<DEBUG, caches, cells, created, seen, story, shorts>>

\* Instances exist once the class is defined: every declaration was handed
\* to the decorator as (prototype, name, descriptor) and none threw.
ClassDefined ==
    \A d \in Decls : /\ applied[d].done
                     /\ applied[d].err = NoError
                     /\ applied[d].args = <<Proto, Str(d), DescRef>>

\* The caller has taken the outcome of its last read or write and is at
\* its next statement.
AtStatement == last.op \in {"apply", "idle"}

\* instance.d, read from outside any computation.
Read(d, i) ==
    /\ ClassDefined
    /\ AtStatement
    /\ descr[d] = "cached"
    \* one call of the installed getter; r is what it did
    /\ \E run \in Runs(d, i) :
       \E r \in {InstalledGetter(Heap(run[2]), Top(d), i, run[1])} :
           /\ caches' = r.h.caches
           /\ created' = r.h.created
           /\ seen' = [seen EXCEPT ![d][i] =
                         IF r.res.ok
                           THEN [st |-> "fresh", val |-> r.res.v,
                                 deps |-> FReads(d, cells, i)]
                         \* a read that failed before its getter ran
                         \* tells nothing about the getter
                         ELSE IF r.h.invoked[d][i] = 0 THEN @
                           ELSE [st |-> "failed", val |-> "", deps |-> {}]]
           /\ last' = [op |-> "read", d |-> d, i |-> i, res |-> r.res,
                       ninv |-> r.ninv, total |-> r.h.invoked[d][i],
                       pre |-> seen[d][i].st, prev |-> seen[d][i].val,
                       calls |-> r.h.calls, resolves |-> r.h.resolves,
                       others |-> Others(r.h.invoked, d, i),
                       cut |-> r.h.cut,
                       short |-> run[1] >= MaxDepth /\ r.h.cut # NoSite]
           /\ story' = StoryAfterRead(d, i, r.res, r.h.invoked[d][i],
                                      run[1] >= MaxDepth /\ r.h.cut # NoSite)
           /\ shorts' = IF run[1] >= MaxDepth /\ r.h.cut # NoSite
                          THEN shorts + 1 ELSE shorts
           \* the fields as the getter call left them
           /\ cells' = r.h.cells
    /\ UNCHANGED <<DEBUG, descr, getter, applied>>

\* instance.fld = v, an assignment to a tracked field from outside any
\* computation; an assignment of the value the field holds is one too.
Write(i, fld, v) ==
    /\ ClassDefined
    /\ AtStatement
    /\ cells' = [cells EXCEPT ![i][fld] = v]
    /\ caches' = DirtyCell(caches, <<i, fld>>)
    /\ seen' = [d \in Decls |-> [j \in Instances |->
                  IF seen[d][j].st = "fresh" /\ <<i, fld>> \in seen[d][j].deps
                    THEN [st |-> "dirty", val |-> "", deps |-> {}]
                    ELSE seen[d][j]]]
    /\ last' = Op("write", "")
    /\ story' = StoryAfterWrite(i, fld, v)
    /\ UNCHANGED <<DEBUG, descr, getter, applied, created, shorts>>

\* The caller goes on to its next statement: what its read or write
\* yielded is no longer at hand.
Continue ==
    /\ last.op \in {"read", "write"}
    /\ last' = Op("idle", "")
    /\ UNCHANGED <<DEBUG, descr, getter, caches, cells, applied, created, seen,
                   story, shorts>>

Next ==
    \/ \E d \in Decls : \E args \in ArgLists(d) : Apply(d, args)
    \/ \E d \in Decls, i \in Instances : Read(d, i)
    \/ \E i \in Instances, fld \in Fields : \E v \in FieldValues(fld) : Write(i, fld, v)
    \/ Continue

Spec == Init /\ [][Next]_vars

(***************************************************************************)
(* Properties.                                                             *)
(***************************************************************************)
IsRead == last.op = "read"

\* The read that led to this state was made through a wrapper installed
\* over a computation f.
OverF(d) == getter[d] # <<>> /\ getter[d][1] = "f"
ReadOfF == IsRead /\ OverF(last.d)

\* The closures installed on property d.
ClosuresOf(d) == {w \in Closures : w[1] = d /\ w[2] <= Len(getter[d])}

\* What a read of d on instance i would do in the current state.
ReadOutcome(d, i, run) ==
    LET r == InstalledGetter(Heap(run[2]), Top(d), i, run[1])
    IN  [res |-> r.res, ninv |-> r.ninv, total |-> r.h.invoked[d][i]]

\* The outcomes a read of d on instance i can have in the current state.
ReadOutcomes(d, i) == {ReadOutcome(d, i, run) : run \in AllRuns(d, i)}

\* The read l ended before caches.set of the k-th closure of its property
\* was reached: its stack ended in its first level, in the installed getter
\* of that closure or of one entered before it, or in the getValue of one
\* entered before it.
EndedBeforeSet(l, k) ==
    /\ l.short
    /\ \/ l.cut[1] = "getter" /\ l.cut[2] >= k
       \/ l.cut[1] = "getValue" /\ l.cut[2] > k

\* The read l ended before its getter was reached.
EndedBeforeF(l) == l.short /\ l.cut[1] \in {"getter", "getValue"}

\* C1: whatever reads were made, re-entrant ones included, createCache has
\* been called at most once for every (declaration, instance) pair; the
\* declaration of a closure is the getter it was applied to, so a getter
\* decorated twice makes two pairs per instance.
C1_AtMostOneHandle ==
    \A w \in Closures, i \in Instances : created[w][i] <= 1

\* A re-entrant read was made on a pair that had been read before, and the
\* pair has its one handle.
C1_Witness ==
    /\ IsRead /\ last.total > 1 /\ last.pre # "none"
    /\ created[Top(last.d)][last.i] = 1
    /\ caches[Top(last.d)][last.i] # NoCache

C5_PerInstanceIsolation ==
    [][\A d \in Decls, a \in Instances, b \in Instances :
          (/\ a # b
           /\ last'.op = "write"
           /\ cells'[b] = cells[b]
           /\ seen[d][a].st = "fresh" /\ seen'[d][a].st = "dirty"
           /\ seen[d][b].st = "fresh") =>
              /\ ReadOutcome(d, b, <<1, <<"f", 0>>>>)' =
                    [res |-> Return(seen[d][b].val), ninv |-> 0, total |-> 0]
              /\ \A o \in ReadOutcomes(d, b)' :
                    /\ o.ninv = 0 /\ o.total = 0
                    /\ o.res.ok => o.res = Return(seen[d][b].val)]_vars

\* Instance b was read from its cache after a dependency of a was written.
C5_Witness ==
    ReadOfF /\ last.i = "b" /\ last.pre = "fresh" /\ last.total = 0
        /\ seen[last.d]["a"].st = "dirty"

NotAGetterError == "GetterOnly"
UnsupportedArgumentsError == "InvalidArgs"
InvalidUsageError == "ExtraneousParens"
DeclarationErrors == {NotAGetterError, UnsupportedArgumentsError, InvalidUsageError}

Applied == {d \in Decls : applied[d].done}

\* descriptor.get of d is what it was before the decorator ran, and no
\* closure of the decorator is reachable from it.
Uninstalled(d) ==
    descr[d] = applied[d].get0 /\ Len(getter[d]) = applied[d].closures0

\* The argument list has the shape of a declaration: an object, a string
\* and an object, and nothing else.
WellShaped(args) ==
    /\ Len(args) = 3
    /\ TypeOf(args[1]) = "object"
    /\ TypeOf(args[2]) = "string"
    /\ TypeOf(args[3]) = "object"

\* The decorator was handed the descriptor of a member with a getter, the
\* original one or a caching getter installed before.
HasGetter(d) ==
    Arg(applied[d].args, 3) = DescRef /\ applied[d].get0 \in {"f", "cached"}

\* The declaration is one the decorator is meant to reject.
Invalid(d) == ~WellShaped(applied[d].args) \/ ~HasGetter(d)

\* Every argument of the list can be printed in an error message.
AllPrintable(args) == \A n \in 1..Len(args) : Printable(args[n])

\* The decorator called with arguments instead of as a declaration.
CallArguments ==
    {<<>>, <<Str("dep")>>, <<Str("dep"), Str("other")>>, <<Sym>>,
     <<Undefined>>, <<Undefined, Str("dep")>>, <<Undefined, Sym>>}

\* C6 as stated: whatever DEBUG is, an invalid declaration raises one of the
\* three declaration errors while it is processed and stays uninstalled, and
\* no read fails inside the wrapper.
C6_Original ==
    /\ \A d \in Applied : Invalid(d) =>
          applied[d].err.name \in DeclarationErrors /\ Uninstalled(d)
    /\ IsRead => last.res # Raise("TypeError")

\* C6, amended: the declaration errors are raised only while DEBUG is true;
\* then every invalid declaration raises while it is processed, a
\* declaration that raises stays uninstalled, and no read fails inside the
\* wrapper.
C6_DeclarationErrorsInDebug ==
    /\ \A d \in Applied :
          /\ applied[d].err.name \in DeclarationErrors => DEBUG
          /\ applied[d].err # NoError => Uninstalled(d)
          /\ (DEBUG /\ Invalid(d)) => applied[d].err # NoError
    /\ (DEBUG /\ IsRead) => last.res # Raise("TypeError")

\* With DEBUG true the first declaration was installed and the second, an
\* invalid one, raised a declaration error and stayed uninstalled.
C6_Witness ==
    /\ DEBUG
    /\ descr["fullName"] = "cached"
    /\ applied["greeting"].done /\ Invalid("greeting")
    /\ applied["greeting"].err.name \in DeclarationErrors
    /\ Uninstalled("greeting")

\* C7 as stated: the decorator applied to the descriptor of a member without
\* a function-valued get raises NotAGetterError naming the key and leaves
\* the descriptor as it was.
C7_Original ==
    \A d \in Applied :
        (Arg(applied[d].args, 3) = DescRef
           /\ applied[d].get0 \notin {"f", "cached"}) =>
            /\ applied[d].err.name = NotAGetterError
            /\ applied[d].err.key = Arg(applied[d].args, 2).v
            /\ Uninstalled(d)

\* C7, amended: with DEBUG true, the decorator applied to a well-shaped
\* (object, string, object) declaration whose descriptor is an object
\* without a function-valued get raises NotAGetterError naming the key and
\* leaves the descriptor as it was.
C7_NotAGetterInDebug ==
    \A d \in Applied :
        (/\ DEBUG
         /\ WellShaped(applied[d].args)
         /\ applied[d].args[3] # Null
         /\ ~HasGetter(d)) =>
            /\ applied[d].err.name = NotAGetterError
            /\ applied[d].err.key = applied[d].args[2].v
            /\ applied[d].err.key = d
            /\ Uninstalled(d)

\* A setter-only accessor was decorated and rejected by name.
C7_Witness ==
    /\ applied["fullName"].done
    /\ applied["fullName"].args = <<Proto, Str("fullName"), DescRef>>
    /\ applied["fullName"].get0 = "undefined"
    /\ applied["fullName"].err = ThrowCachedGetterOnlyError(Str("fullName"))
    /\ descr["fullName"] = "undefined"

\* C8 as stated: the decorator called with any argument list, the empty one
\* included, raises UnsupportedArgumentsError and installs nothing.
C8_Original ==
    \A d \in Applied :
        applied[d].args \in CallArguments =>
            applied[d].err.name = UnsupportedArgumentsError /\ Uninstalled(d)

\* C8, amended: with DEBUG true, the decorator called with an argument
\* list whose first argument is undefined, the empty list of @cached()
\* and @cached(undefined) alike, raises the extraneous-parentheses error;
\* called with any other list it raises UnsupportedArgumentsError, whose
\* message lists the arguments as they print, or, when an argument cannot
\* be printed (a symbol), the TypeError of the host that building the
\* message raises; all install nothing.
C8_CallArgumentsInDebug ==
    \A d \in Applied :
        (DEBUG /\ applied[d].args \in CallArguments) =>
            /\ Arg(applied[d].args, 1) = Undefined =>
                  applied[d].err = ThrowCachedExtraneousParens
            /\ (Arg(applied[d].args, 1) # Undefined
                  /\ AllPrintable(applied[d].args)) =>
                  /\ applied[d].err.name = UnsupportedArgumentsError
                  /\ applied[d].err.list = QuotedList(applied[d].args)
                  /\ applied[d].err.plural = (Len(applied[d].args) > 1)
            /\ (Arg(applied[d].args, 1) # Undefined
                  /\ ~AllPrintable(applied[d].args)) =>
                  applied[d].err = TypeError
            /\ Uninstalled(d)

\* @cached('dep') was rejected for its argument.
C8_Witness ==
    /\ applied["fullName"].done
    /\ applied["fullName"].args = <<Str("dep")>>
    /\ applied["fullName"].err = ThrowCachedInvalidArgsError(<<Str("dep")>>)
    /\ Uninstalled("fullName")

\* C9 as stated: a declaration of the wrong shape or arity raises
\* InvalidUsageError, an error that is neither UnsupportedArgumentsError nor
\* NotAGetterError.
C9_Original ==
    \A d \in Applied :
        (~WellShaped(applied[d].args) /\ applied[d].args \notin CallArguments) =>
            /\ applied[d].err.name = InvalidUsageError
            /\ applied[d].err.name \notin {UnsupportedArgumentsError, NotAGetterError}

\* C9, amended: with DEBUG true, a declaration of the wrong shape or arity
\* raises the error that call arguments raise, UnsupportedArgumentsError,
\* unless its target is undefined, which raises the extraneous-parentheses
\* error, or one of its arguments cannot be printed (a symbol as key, an
\* object without prototype), which raises the TypeError of the host while
\* the message is built; it installs nothing.
C9_WrongShapeInDebug ==
    \A d \in Applied :
        (/\ DEBUG
         /\ ~WellShaped(applied[d].args)
         /\ applied[d].args \notin CallArguments) =>
            /\ (Arg(applied[d].args, 1) # Undefined
                  /\ AllPrintable(applied[d].args)) =>
                  /\ applied[d].err.name = UnsupportedArgumentsError
                  /\ applied[d].err.name =
                        Cached(TRUE, <<Str("dep")>>, applied[d].get0).err.name
            /\ (Arg(applied[d].args, 1) # Undefined
                  /\ ~AllPrintable(applied[d].args)) =>
                  applied[d].err = TypeError
            /\ Arg(applied[d].args, 1) = Undefined =>
                  applied[d].err.name = InvalidUsageError
            /\ Uninstalled(d)

\* A field declared with target and key only was rejected with the error
\* of call arguments, which lists the two.
C9_Witness ==
    /\ DEBUG
    /\ applied["fullName"].done
    /\ applied["fullName"].args = <<Proto, Str("fullName")>>
    /\ applied["fullName"].get0 = "absent"
    /\ applied["fullName"].err =
          [name |-> UnsupportedArgumentsError, key |-> "", plural |-> TRUE,
           list |-> "'[object Object]', 'fullName'"]
    /\ Uninstalled("fullName")


\* ------------------------------------------------------------------
\* The association, the example, and the frame of a read
\* ------------------------------------------------------------------

\* The entry of instance i in the association of closure w: which handle,
\* if any, the instance is mapped to.  The handle's own state (valid, value,
\* deps) is the handle's, not the association's.
Entry(w, i) ==
    [id |-> caches[w][i].id, decl |-> caches[w][i].decl,
     this |-> caches[w][i].this]

Association(w) == [i \in Instances |-> Entry(w, i)]

NoEntry == [id |-> 0, decl |-> <<>>, this |-> ""]

\* C11: the association of a declaration is changed by nothing but the
\* first read of an instance: an entry that exists is the same entry after
\* every step, so none is removed or replaced; an entry that changes is
\* that of an instance x without one, in a step that reads the property of
\* the declaration on x, so that a read of an instance that has an entry,
\* a read of another instance, a write of a field and an application leave
\* it as it was.
C11_OnlyFirstReadAdds ==
    [][\A w \in Closures, i \in Instances :
         caches'[w][i] # caches[w][i] =>
           /\ Entry(w, i) # NoEntry => Entry(w, i)' = Entry(w, i)
           /\ Entry(w, i)' # Entry(w, i)
                => /\ last'.op = "read" /\ last'.d = w[1] /\ last'.i = i
                   /\ Entry(w, i) = NoEntry
                   /\ Entry(w, i)'.id = 1
                   /\ Entry(w, i)'.decl = w /\ Entry(w, i)'.this = i]_vars

\* A first read of "b" has added its entry beside the entry of "a".
C11_Witness ==
    /\ ReadOfF /\ last.i = "b" /\ last.pre = "none"
    /\ Association(Top(last.d))["b"] # NoEntry
    /\ Association(Top(last.d))["a"] # NoEntry

C13_ReadWritesNoField ==
    [][last'.op = "read" => cells' = cells]_vars

\* A first read, that created and registered a cache and ran the getter,
\* has left the fields at their initial values.
C13_Witness ==
    /\ ReadOfF /\ last.pre = "none" /\ last.ninv = 1
    /\ created[Top(last.d)][last.i] = 1
    /\ \A c \in Cells : cells[c[1]][c[2]] = IF c[2] = "first" THEN "Jen" ELSE "Weber"


NextRead(d, i, run) == InstalledGetter(Heap(run[2]), Top(d), i, run[1])

C17_OwnAssociation ==
    [][last'.op = "read" =>
         /\ \A w \in Closures :
              w[1] # last'.d
                => caches'[w] = caches[w] /\ created'[w] = created[w]
         /\ \A e \in Decls \ {last'.d} : seen'[e] = seen[e]
         /\ last'.others = 0
         /\ OverF(last'.d)
              => last'.res = IF last'.short THEN Raise("RangeError")
                             ELSE FResult(last'.d, cells', last'.i)]_vars

\* fullName was recomputed on an instance whose greeting stayed cached.
C17_Witness ==
    /\ ReadOfF /\ last.d = "fullName" /\ last.pre = "dirty" /\ last.ninv = 1
    /\ caches[Top("greeting")][last.i].valid
    /\ created[Top("greeting")][last.i] = 1
    /\ created[Top("fullName")][last.i] = 1


\* ------------------------------------------------------------------
\* The outcomes of an application and the order of its checks
\* ------------------------------------------------------------------

\* C18: with DEBUG true every application of the decorator, whatever its
\* arguments, either raises one of the three declaration errors and leaves
\* the descriptor as it was, or raises nothing and replaces the getter of a
\* descriptor whose get was a function; no argument list yields another
\* error or a caching getter over a missing getter.
C18_TwoOutcomes ==
    DEBUG =>
      \A d \in Applied :
          \/ /\ applied[d].err.name \in DeclarationErrors
             /\ Uninstalled(d)
          \/ /\ applied[d].err = NoError
             /\ applied[d].get0 \in {"f", "cached"}
             /\ Arg(applied[d].args, 3) = DescRef
             /\ descr[d] = "cached"
             /\ Len(getter[d]) = applied[d].closures0 + 1
             /\ getter[d][Len(getter[d])] = applied[d].get0

\* C19 as stated: without regard to DEBUG, an undefined target raises the
\* extraneous-parentheses error whatever the other arguments are, any
\* other wrong shape or arity raises the invalid-arguments error, and the
\* getter-only error is raised only for an (object, string, object) triple.
C19_Original ==
    \A d \in Applied :
        /\ Arg(applied[d].args, 1) = Undefined
              => applied[d].err.name = InvalidUsageError
        /\ (Arg(applied[d].args, 1) # Undefined /\ ~WellShaped(applied[d].args))
              => applied[d].err.name = UnsupportedArgumentsError
        /\ applied[d].err.name = NotAGetterError => WellShaped(applied[d].args)

\* C19, amended: the checks run only while DEBUG is true, and then in a
\* fixed order: the extraneous-parentheses error is raised exactly for an
\* undefined target, whatever the other arguments are; the invalid-arguments
\* error exactly for a defined target in a list of the wrong shape or
\* arity whose arguments can all be printed, whether or not the descriptor
\* has a getter (with an argument that cannot be printed the same check
\* ends in the TypeError of the host); the getter-only error only for an
\* (object, string, object) triple without a getter.
C19_CheckOrderInDebug ==
    \A d \in Applied :
        /\ applied[d].err.name = InvalidUsageError
              <=> (DEBUG /\ Arg(applied[d].args, 1) = Undefined)
        /\ applied[d].err.name = UnsupportedArgumentsError
              <=> (/\ DEBUG
                   /\ Arg(applied[d].args, 1) # Undefined
                   /\ ~WellShaped(applied[d].args)
                   /\ AllPrintable(applied[d].args))
        /\ (/\ DEBUG
            /\ Arg(applied[d].args, 1) # Undefined
            /\ ~WellShaped(applied[d].args)
            /\ ~AllPrintable(applied[d].args))
              => applied[d].err = TypeError
        /\ applied[d].err.name = NotAGetterError
              => DEBUG /\ WellShaped(applied[d].args) /\ ~HasGetter(d)

\* An undefined target in front of a descriptor without a getter raised
\* the extraneous-parentheses error, not one of the later checks' errors.
C19_Witness ==
    /\ DEBUG
    /\ applied["fullName"].done
    /\ applied["fullName"].args = <<Undefined, Str("fullName"), DescRef>>
    /\ applied["fullName"].get0 = "absent"
    /\ applied["fullName"].err = ThrowCachedExtraneousParens

====
